---- MODULE Spec2Model ----
(***************************************************************************)
(* A model of the libsql database/sql driver (package libsql).             *)
(*                                                                         *)
(* The Go wrappers (Connector, connection, statement, Rows, transaction)   *)
(* are records holding the C handle structs {err, inner}; the native       *)
(* library is an opaque collaborator: each native call either succeeds or  *)
(* reports an error, and a call made with a handle that is nil or has      *)
(* already been released may in addition crash the process.                *)
(***************************************************************************)
EXTENDS Integers, Sequences, FiniteSets, TLC

VARIABLES
    connector,   \* the Connector: [inner : handle, deinitCalls]
    conns,       \* the connections returned by Connector.Connect
    stmts,       \* the statements returned by connection.PrepareContext
    rowss,       \* the Rows returned by statement.QueryContext
    txs,         \* the transaction objects returned by connection.BeginTx
    ntx,         \* native side: the transactions libsql_connection_transaction began
    crashed,     \* the process died inside a native call
    last,        \* the last driver call: what it returned and which native calls it made
    ended,       \* history: the transaction objects a Commit or Rollback on which returned nil
    carg,        \* value codec: the driver.NamedValue bound as a parameter
    cparam,      \* value codec: the native value the parameter was bound to
    cdest,       \* value codec: the driver.Value read back from the row
    cpc,         \* value codec: "start", "bound", "read"
    opts,        \* configuration: the options given to NewEmbeddedReplicaConnector
    built,       \* configuration: what NewEmbeddedReplicaConnector returned
    dbAddress,   \* opening: the connection string given to OpenConnector
    opened       \* opening: what OpenConnector returned

hvars == <<connector, conns, stmts, rowss, txs, ntx, crashed, last, ended>>
cvars == <<carg, cparam, cdest, cpc>>
bvars == <<opts, built>>
ovars == <<dbAddress, opened>>

vars == <<hvars, cvars, bvars, ovars>>

\* ------------------------------------------------------------------ bounds
MaxConns == 1
MaxStmts == 1
MaxRows == 1
MaxTxs == 2
MaxDeinit == 2
MaxTextLen == 2
MaxBlobLen == 1
MaxOpts == 3
MaxPad == 1

\* ------------------------------------------------------------- C handles
\* A nil C pointer.
Nil == 0

\* The zero value of a C handle struct: C.libsql_transaction_t{}.
ZeroHandle == [err |-> FALSE, inner |-> Nil]

\* What a native init call returns on success / on failure.
OkHandle(id) == [err |-> FALSE, inner |-> id]
ErrHandle == [err |-> TRUE, inner |-> Nil]

NoError == "nil"

\* One native call, as recorded in last.native: the C function and the inner
\* pointer of the handle passed to it.
Call(fn, h) == [fn |-> fn, h |-> h.inner]

\* The outcomes of a native call: with a live handle it succeeds or reports
\* an error; with a nil handle it reports an error or crashes; with a
\* dangling (released, not nulled) handle anything can happen.
NativeOutcomes(live, isNil) ==
    IF live THEN {"ok", "err"}
    ELSE IF isNil THEN {"err", "crash"}
    ELSE {"ok", "err", "crash"}

\* The outcomes of a native call whose result the driver does not look at
\* (deinit, commit, rollback).
VoidOutcomes(live) == IF live THEN {"ok"} ELSE {"ok", "crash"}

\* The record of a driver call: the method, the object it was called on (an
\* index), its arguments, the error it returned, the native calls it made, in
\* order, and the object as it was before the call.
Done(op, obj, arg, err, native, pre) ==
    [op |-> op, obj |-> obj, arg |-> arg, err |-> err, native |-> native,
     pre |-> pre]

NoArg == <<>>

\* ------------------------------------------------------------- Connector
ConnectorLive == connector.inner.inner # Nil

\* func (c *Connector) Sync() (Replicated, error)
ConnectorSync ==
    /\ ~crashed
    /\ \E o \in NativeOutcomes(ConnectorLive, TRUE) :
        /\ crashed' = (o = "crash")
        /\ last' = Done("Connector.Sync", 0, NoArg,
                        IF o = "err" THEN "native error" ELSE NoError,
                        <<Call("libsql_database_sync", connector.inner)>>,
                        connector)
    /\ UNCHANGED <<connector, conns, stmts, rowss, txs, ntx>>

\* Connector.Close without its nil check.
ConnectorCloseUnguarded ==
    /\ ~crashed
    /\ connector.deinitCalls < MaxDeinit
    /\ connector' = [inner |-> [connector.inner EXCEPT !.inner = Nil],
                     deinitCalls |-> connector.deinitCalls + 1]
    /\ last' = Done("Connector.Close", 0, NoArg, NoError,
                    <<Call("libsql_database_deinit", connector.inner)>>,
                    connector)
    /\ UNCHANGED <<conns, stmts, rowss, txs, ntx, crashed>>

\* func (c *Connector) Close() error
ConnectorClose ==
    /\ ~crashed
    /\ IF connector.inner.inner = Nil
       THEN /\ last' = Done("Connector.Close", 0, NoArg, NoError, <<>>,
                            connector)
            /\ UNCHANGED connector
       ELSE /\ connector' = [inner |-> [connector.inner EXCEPT !.inner = Nil],
                             deinitCalls |-> connector.deinitCalls + 1]
            /\ last' = Done("Connector.Close", 0, NoArg, NoError,
                            <<Call("libsql_database_deinit", connector.inner)>>,
                            connector)
    /\ UNCHANGED <<conns, stmts, rowss, txs, ntx, crashed>>

NewConnection(id) ==
    [inner |-> OkHandle(id), tx |-> ZeroHandle, in_transaction |-> FALSE,
     deinitCalls |-> 0]

\* func (c *Connector) Connect(ctx context.Context) (driver.Conn, error)
ConnectorConnect ==
    /\ ~crashed
    /\ \E o \in NativeOutcomes(ConnectorLive, TRUE) :
        /\ o = "ok" => Len(conns) < MaxConns
        /\ crashed' = (o = "crash")
        /\ conns' = IF o = "ok"
                    THEN Append(conns, NewConnection(Len(conns) + 1))
                    ELSE conns
        /\ last' = Done("Connector.Connect", 0, NoArg,
                        IF o = "err" THEN "native error" ELSE NoError,
                        <<Call("libsql_database_connect", connector.inner)>>,
                        connector)
    /\ UNCHANGED <<connector, stmts, rowss, txs, ntx>>

\* ------------------------------------------------------------ connection
ConnLive(c) == conns[c].deinitCalls = 0

\* The native transaction a handle refers to is open.
TxHandleOpen(h) ==
    /\ ~h.err
    /\ h.inner # Nil
    /\ h.inner \in 1..Len(ntx)
    /\ ntx[h.inner].st = "open"

\* func (conn *connection) Batch(query string) error
connectionBatch(c) ==
    /\ ~crashed
    /\ LET inTx == conns[c].in_transaction
           live == IF inTx THEN TxHandleOpen(conns[c].tx) ELSE ConnLive(c)
           isNil == IF inTx THEN conns[c].tx.inner = Nil ELSE FALSE
           call == IF inTx
                   THEN Call("libsql_transaction_batch", conns[c].tx)
                   ELSE Call("libsql_connection_batch", conns[c].inner)
       IN \E o \in NativeOutcomes(live, isNil) :
            /\ crashed' = (o = "crash")
            /\ last' = Done("connection.Batch", c, NoArg,
                            IF o = "err" THEN "native error" ELSE NoError,
                            <<call>>, conns[c])
    /\ UNCHANGED <<connector, conns, stmts, rowss, txs, ntx>>

\* driver.TxOptions
TxOptions(readOnly, isolation) == [ReadOnly |-> readOnly, Isolation |-> isolation]

\* driver.TxOptions.Isolation: sql.LevelDefault is 0.
LevelDefault == 0
Isolations == {LevelDefault, 1}

\* connection.BeginTx without its check of the isolation level.
connectionBeginTxAnyIsolation(c, readOnly, isolation) ==
    /\ ~crashed
    /\ IF readOnly
       THEN /\ last' = Done("connection.BeginTx", c, TxOptions(readOnly, isolation),
                            "read only transactions are not supported",
                            <<>>, conns[c])
            /\ UNCHANGED <<conns, txs, ntx, crashed>>
       ELSE \E o \in NativeOutcomes(conns[c].deinitCalls = 0, FALSE) :
            /\ o = "ok" => Len(ntx) < MaxTxs
            /\ crashed' = (o = "crash")
            /\ ntx' = IF o = "ok"
                      THEN Append(ntx, [conn |-> c, st |-> "open"])
                      ELSE ntx
            /\ conns' = [conns EXCEPT ![c] =
                            [@ EXCEPT !.in_transaction = TRUE,
                                      !.tx = IF o = "ok" THEN OkHandle(Len(ntx) + 1)
                                             ELSE IF o = "err" THEN ErrHandle
                                             ELSE @]]
            /\ txs' = IF o = "ok" THEN Append(txs, [conn |-> c]) ELSE txs
            /\ last' = Done("connection.BeginTx", c, TxOptions(readOnly, isolation),
                            IF o = "err" THEN "native error" ELSE NoError,
                            <<Call("libsql_connection_transaction", conns[c].inner)>>,
                            conns[c])
    /\ UNCHANGED <<connector, stmts, rowss>>

\* func (conn *connection) BeginTx(ctx, opts driver.TxOptions) (driver.Tx, error)
connectionBeginTx(c, readOnly, isolation) ==
    /\ ~crashed
    /\ IF readOnly
       THEN /\ last' = Done("connection.BeginTx", c, TxOptions(readOnly, isolation),
                            "read only transactions are not supported",
                            <<>>, conns[c])
            /\ UNCHANGED <<conns, txs, ntx, crashed>>
       ELSE IF isolation # LevelDefault
       THEN /\ last' = Done("connection.BeginTx", c, TxOptions(readOnly, isolation),
                            "isolation level is not supported",
                            <<>>, conns[c])
            /\ UNCHANGED <<conns, txs, ntx, crashed>>
       ELSE \E o \in NativeOutcomes(ConnLive(c), FALSE) :
            /\ o = "ok" => Len(ntx) < MaxTxs
            /\ crashed' = (o = "crash")
            /\ ntx' = IF o = "ok"
                      THEN Append(ntx, [conn |-> c, st |-> "open"])
                      ELSE ntx
            \* in_transaction is set before the native call, conn.tx after it
            /\ conns' = [conns EXCEPT ![c] =
                            [@ EXCEPT !.in_transaction = TRUE,
                                      !.tx = IF o = "ok" THEN OkHandle(Len(ntx) + 1)
                                             ELSE IF o = "err" THEN ErrHandle
                                             ELSE @]]
            /\ txs' = IF o = "ok" THEN Append(txs, [conn |-> c]) ELSE txs
            /\ last' = Done("connection.BeginTx", c, TxOptions(readOnly, isolation),
                            IF o = "err" THEN "native error" ELSE NoError,
                            <<Call("libsql_connection_transaction", conns[c].inner)>>,
                            conns[c])
    /\ UNCHANGED <<connector, stmts, rowss>>

\* func (conn *connection) Close() error
connectionClose(c) ==
    /\ ~crashed
    /\ conns[c].deinitCalls < MaxDeinit
    /\ \E o \in VoidOutcomes(ConnLive(c)) :
        /\ crashed' = (o = "crash")
        /\ conns' = [conns EXCEPT ![c].deinitCalls = @ + 1]
        /\ last' = Done("connection.Close", c, NoArg, NoError,
                        <<Call("libsql_connection_deinit", conns[c].inner)>>,
                        conns[c])
    /\ UNCHANGED <<connector, stmts, rowss, txs, ntx>>

\* ------------------------------------------------------------ transaction
\* What Commit and Rollback do, given the native call and the state the
\* native transaction ends in.
EndTx(t, op, fn, st) ==
    LET c == txs[t].conn IN
    /\ ~crashed
    /\ IF ~conns[c].in_transaction
       THEN /\ last' = Done(op, t, NoArg, "Not inside a transaction", <<>>,
                            conns[c])
            /\ UNCHANGED <<conns, ntx, crashed>>
       ELSE \E o \in VoidOutcomes(TxHandleOpen(conns[c].tx)) :
            /\ crashed' = (o = "crash")
            /\ ntx' = IF TxHandleOpen(conns[c].tx)
                      THEN [ntx EXCEPT ![conns[c].tx.inner].st = st]
                      ELSE ntx
            /\ conns' = [conns EXCEPT ![c] =
                            [@ EXCEPT !.tx = ZeroHandle, !.in_transaction = FALSE]]
            /\ last' = Done(op, t, NoArg, NoError, <<Call(fn, conns[c].tx)>>,
                            conns[c])
    /\ UNCHANGED <<connector, stmts, rowss, txs>>

\* transaction.Commit without its check of in_transaction.
transactionCommitUnchecked(t) ==
    LET c == txs[t].conn IN
    /\ ~crashed
    /\ \E o \in VoidOutcomes(TxHandleOpen(conns[c].tx)) :
        /\ crashed' = (o = "crash")
        /\ ntx' = IF TxHandleOpen(conns[c].tx)
                  THEN [ntx EXCEPT ![conns[c].tx.inner].st = "committed"]
                  ELSE ntx
        /\ conns' = [conns EXCEPT ![c] =
                        [@ EXCEPT !.tx = ZeroHandle, !.in_transaction = FALSE]]
        /\ last' = Done("transaction.Commit", t, NoArg, NoError,
                        <<Call("libsql_transaction_commit", conns[c].tx)>>,
                        conns[c])
    /\ UNCHANGED <<connector, stmts, rowss, txs>>

\* func (t *transaction) Commit() error
transactionCommit(t) ==
    EndTx(t, "transaction.Commit", "libsql_transaction_commit", "committed")

\* func (t *transaction) Rollback() error
transactionRollback(t) ==
    EndTx(t, "transaction.Rollback", "libsql_transaction_rollback", "rolledback")


\* ------------------------------------------------------------ Value Codec
\* Text is a sequence of one-byte characters; "NUL" stands for the byte 0.
Digits == {"0", "1", "2", "3", "4", "5", "6", "7", "8", "9"}

DigitVal(ch) ==
    CASE ch = "0" -> 0 [] ch = "1" -> 1 [] ch = "2" -> 2 [] ch = "3" -> 3
      [] ch = "4" -> 4 [] ch = "5" -> 5 [] ch = "6" -> 6 [] ch = "7" -> 7
      [] ch = "8" -> 8 [] ch = "9" -> 9

DigitChar(n) ==
    CASE n = 0 -> "0" [] n = 1 -> "1" [] n = 2 -> "2" [] n = 3 -> "3"
      [] n = 4 -> "4" [] n = 5 -> "5" [] n = 6 -> "6" [] n = 7 -> "7"
      [] n = 8 -> "8" [] n = 9 -> "9"

Drop(s, n) == SubSeq(s, n + 1, Len(s))
Take(s, n) == SubSeq(s, 1, n)

\* time.isDigit(s, i), with i counted from 1
isDigit(s, i) == i >= 1 /\ i <= Len(s) /\ s[i] \in Digits

commaOrPeriod(ch) == ch \in {".", ","}

\* The value of a sequence of digits.
RECURSIVE digitsValue(_)
digitsValue(ds) ==
    IF ds = <<>> THEN 0
    ELSE digitsValue(Take(ds, Len(ds) - 1)) * 10 + DigitVal(ds[Len(ds)])

\* How many digits s holds from index i on.
RECURSIVE digitRun(_, _)
digitRun(s, i) == IF isDigit(s, i) THEN 1 + digitRun(s, i + 1) ELSE 0

RECURSIVE pow10(_)
pow10(n) == IF n = 0 THEN 1 ELSE 10 * pow10(n - 1)

\* time.cutspace
RECURSIVE cutspace(_)
cutspace(s) == IF Len(s) > 0 /\ s[1] = " " THEN cutspace(Tail(s)) ELSE s

\* time.getnum: one or two digits (two when fixed)
getnum(s, fixed) ==
    IF ~isDigit(s, 1) THEN [ok |-> FALSE, n |-> 0, rest |-> s]
    ELSE IF ~isDigit(s, 2)
    THEN IF fixed THEN [ok |-> FALSE, n |-> 0, rest |-> s]
         ELSE [ok |-> TRUE, n |-> DigitVal(s[1]), rest |-> Drop(s, 1)]
    ELSE [ok |-> TRUE, n |-> DigitVal(s[1]) * 10 + DigitVal(s[2]), rest |-> Drop(s, 2)]

\* time.skip for a one-character literal of the layout: a space of the layout
\* matches any run of spaces of the value (none at the value's end).
skip(value, lit) ==
    IF lit = " "
    THEN IF Len(value) > 0 /\ value[1] # " "
         THEN [ok |-> FALSE, rest |-> value]
         ELSE [ok |-> TRUE, rest |-> cutspace(value)]
    ELSE IF Len(value) = 0 \/ value[1] # lit
         THEN [ok |-> FALSE, rest |-> value]
         ELSE [ok |-> TRUE, rest |-> Tail(value)]

\* time.parseNanoseconds(value, nbytes): value[0] is the separator, at most
\* nine digits count.
parseNanoseconds(value, nbytes) ==
    LET n == IF nbytes > 10 THEN 10 ELSE nbytes
    IN digitsValue(SubSeq(value, 2, n)) * pow10(10 - n)

isLeap(year) == year % 4 = 0 /\ (year % 100 # 0 \/ year % 400 = 0)

\* time.daysIn
daysIn(month, year) ==
    IF month = 2 THEN (IF isLeap(year) THEN 29 ELSE 28)
    ELSE IF month \in {4, 6, 9, 11} THEN 30 ELSE 31

\* A parse in progress: the fields read so far and the rest of the value.
ParseStart(value) ==
    [ok |-> TRUE, rest |-> value, year |-> 0, month |-> 1, day |-> 1, hour |-> 0,
     min |-> 0, sec |-> 0, nsec |-> 0, hasZone |-> FALSE, offset |-> 0]

Bad(st) == [st EXCEPT !.ok = FALSE]

\* The fractional second of the value, read at a "05" whose layout holds no
\* fraction after it, or at a ".999999999".
fracSecond(st) ==
    LET v == st.rest IN
    IF Len(v) >= 2 /\ commaOrPeriod(v[1]) /\ isDigit(v, 2)
    THEN LET n == 1 + digitRun(v, 2)
         IN [st EXCEPT !.nsec = parseNanoseconds(v, n), !.rest = Drop(v, n)]
    ELSE st

\* One chunk of the layout, as the switch of time.parse reads it. fracNext says
\* that the layout's next chunk is a fractional second.
parseChunk(chunk, fracNext, st) ==
    LET v == st.rest IN
    IF ~st.ok THEN st
    ELSE IF chunk = "2006"
    THEN IF Len(v) < 4 \/ ~isDigit(v, 1) \/ digitRun(v, 1) < 4 THEN Bad(st)
         ELSE [st EXCEPT !.year = digitsValue(Take(v, 4)), !.rest = Drop(v, 4)]
    ELSE IF chunk = "01"
    THEN LET g == getnum(v, TRUE) IN
         IF ~g.ok \/ g.n <= 0 \/ 12 < g.n THEN Bad(st)
         ELSE [st EXCEPT !.month = g.n, !.rest = g.rest]
    ELSE IF chunk = "02"
    THEN LET g == getnum(v, TRUE) IN
         IF ~g.ok THEN Bad(st) ELSE [st EXCEPT !.day = g.n, !.rest = g.rest]
    ELSE IF chunk = "15"
    THEN LET g == getnum(v, FALSE) IN
         IF ~g.ok \/ 24 <= g.n THEN Bad(st)
         ELSE [st EXCEPT !.hour = g.n, !.rest = g.rest]
    ELSE IF chunk = "04"
    THEN LET g == getnum(v, TRUE) IN
         IF ~g.ok \/ 60 <= g.n THEN Bad(st)
         ELSE [st EXCEPT !.min = g.n, !.rest = g.rest]
    ELSE IF chunk = "05"
    THEN LET g == getnum(v, TRUE) IN
         IF ~g.ok \/ 60 <= g.n THEN Bad(st)
         ELSE LET s1 == [st EXCEPT !.sec = g.n, !.rest = g.rest]
              IN IF fracNext THEN s1 ELSE fracSecond(s1)
    ELSE IF chunk = ".999999999"
    THEN fracSecond(st)
    ELSE IF chunk = "-07:00"
    THEN IF Len(v) < 6 \/ v[4] # ":" THEN Bad(st)
         ELSE LET hr == getnum(SubSeq(v, 2, 3), TRUE)
                  mm == getnum(SubSeq(v, 5, 6), TRUE)
              IN IF ~hr.ok \/ ~mm.ok \/ hr.n > 24 \/ mm.n > 60
                    \/ v[1] \notin {"+", "-"}
                 THEN Bad(st)
                 ELSE [st EXCEPT !.hasZone = TRUE,
                                 !.offset = (IF v[1] = "-" THEN -1 ELSE 1)
                                            * (hr.n * 60 + mm.n) * 60,
                                 !.rest = Drop(v, 6)]
    ELSE LET k == skip(v, chunk) IN
         IF ~k.ok THEN Bad(st) ELSE [st EXCEPT !.rest = k.rest]

RECURSIVE parseChunks(_, _)
parseChunks(layout, st) ==
    IF layout = <<>> THEN st
    ELSE parseChunks(Tail(layout),
                     parseChunk(Head(layout),
                                Len(layout) > 1 /\ layout[2] = ".999999999", st))

\* time.ParseInLocation(layout, value, time.UTC): the chunks, then no text left
\* over and the day within its month.
ParseInLocation(layout, value) ==
    LET st == parseChunks(layout, ParseStart(value))
    IN IF ~st.ok \/ Len(st.rest) > 0 \/ st.day < 1
          \/ st.day > daysIn(st.month, st.year)
       THEN [ok |-> FALSE]
       ELSE [ok |-> TRUE,
             t |-> [year |-> st.year, month |-> st.month, day |-> st.day,
                    hour |-> st.hour, min |-> st.min, sec |-> st.sec,
                    nsec |-> st.nsec, offset |-> st.offset]]

DateChunks(sep) == <<"2006", "-", "01", "-", "02">>
ClockChunks(sep) == DateChunks(sep) \o <<sep, "15", ":", "04">>
SecondChunks(sep) == ClockChunks(sep) \o <<":", "05">>

\* The date/time layouts fromValue tries, in its order.
Formats ==
    << SecondChunks(" ") \o <<".999999999", "-07:00">>,
       SecondChunks("T") \o <<".999999999", "-07:00">>,
       SecondChunks(" ") \o <<".999999999">>,
       SecondChunks("T") \o <<".999999999">>,
       SecondChunks(" "),
       SecondChunks("T"),
       ClockChunks(" "),
       ClockChunks("T"),
       DateChunks(" ") >>

\* strings.TrimSuffix(str, "Z")
TrimSuffixZ(str) ==
    IF Len(str) > 0 /\ str[Len(str)] = "Z" THEN Take(str, Len(str) - 1) ELSE str

\* The first layout of Formats, from index i on, that parses str.
RECURSIVE firstParse(_, _)
firstParse(str, i) ==
    IF i > Len(Formats) THEN [ok |-> FALSE]
    ELSE LET p == ParseInLocation(Formats[i], str)
         IN IF p.ok THEN p ELSE firstParse(str, i + 1)

\* C.GoString: the bytes before the first NUL.
RECURSIVE GoString(_)
GoString(bytes) ==
    IF bytes = <<>> \/ Head(bytes) = "NUL" THEN <<>>
    ELSE <<Head(bytes)>> \o GoString(Tail(bytes))

Pad2(n) == <<DigitChar(n \div 10), DigitChar(n % 10)>>

RECURSIVE padded(_, _)
padded(n, width) ==
    IF width = 0 THEN <<>>
    ELSE padded(n \div 10, width - 1) \o <<DigitChar(n % 10)>>

RECURSIVE trimZeros(_)
trimZeros(ds) ==
    IF ds # <<>> /\ ds[Len(ds)] = "0" THEN trimZeros(Take(ds, Len(ds) - 1)) ELSE ds

\* time.Time.Format(time.RFC3339Nano)
FormatRFC3339Nano(t) ==
    LET frac == trimZeros(padded(t.nsec, 9))
        zone == t.offset \div 60
        abs == IF zone < 0 THEN -zone ELSE zone
    IN padded(t.year, 4) \o <<"-">> \o Pad2(t.month) \o <<"-">> \o Pad2(t.day)
       \o <<"T">> \o Pad2(t.hour) \o <<":">> \o Pad2(t.min) \o <<":">> \o Pad2(t.sec)
       \o (IF frac = <<>> THEN <<>> ELSE <<".">> \o frac)
       \o (IF t.offset = 0 THEN <<"Z">>
           ELSE <<IF zone < 0 THEN "-" ELSE "+">> \o Pad2(abs \div 60)
                \o <<":">> \o Pad2(abs % 60))

\* A time.Time: its wall clock and its zone offset in seconds.
Time(y, mo, d, h, mi, sec, ns, off) ==
    [year |-> y, month |-> mo, day |-> d, hour |-> h, min |-> mi, sec |-> sec,
     nsec |-> ns, offset |-> off]

\* A Go dynamic value (driver.Value): its kind k and the payload of that kind;
\* the fields of the other kinds stay at their zero values.
GoValue(k) ==
    [k |-> k, b |-> FALSE, i |-> 0, f |-> "0", s |-> <<>>, y |-> <<>>,
     t |-> Time(0, 0, 0, 0, 0, 0, 0, 0)]

GoBool(b) == [GoValue("bool") EXCEPT !.b = b]
GoInt64(i) == [GoValue("int64") EXCEPT !.i = i]
GoFloat64(f) == [GoValue("float64") EXCEPT !.f = f]
GoTime(t) == [GoValue("time") EXCEPT !.t = t]
GoText(s) == [GoValue("string") EXCEPT !.s = s]
GoBytes(y) == [GoValue("bytes") EXCEPT !.y = y]
GoNil == GoValue("nil")

\* A C.libsql_value_t: the type tag and the payload of the union.
CValue(type) == [type |-> type, i |-> 0, f |-> "0", s |-> <<>>, y |-> <<>>]

\* C.libsql_integer, C.libsql_real, C.libsql_text, C.libsql_blob, C.libsql_null
libsql_integer(i) == [CValue("INTEGER") EXCEPT !.i = i]
libsql_real(f) == [CValue("REAL") EXCEPT !.f = f]
libsql_text(s) == [CValue("TEXT") EXCEPT !.s = s]
libsql_blob(y) == [CValue("BLOB") EXCEPT !.y = y]
libsql_null == CValue("NULL")

\* The dynamic kinds the switch of statement.Bind has a case for.
BindKinds == {"bool", "int64", "float64", "time", "string", "bytes", "nil"}

\* The C.libsql_value_t statement.Bind builds for an argument of a kind it
\* has a case for.
toValue(a) ==
    CASE a.k = "bool" -> libsql_integer(IF a.b THEN 1 ELSE 0)
      [] a.k = "int64" -> libsql_integer(a.i)
      [] a.k = "float64" -> libsql_real(a.f)
      [] a.k = "time" -> libsql_text(FormatRFC3339Nano(a.t))
      [] a.k = "string" -> libsql_text(a.s)
      [] a.k = "bytes" -> libsql_blob(a.y)
      [] a.k = "nil" -> libsql_null

\* func fromValue(v C.libsql_value_t) driver.Value
fromValue(nv) ==
    CASE nv.type = "INTEGER" -> GoInt64(nv.i)
      [] nv.type = "REAL" -> GoFloat64(nv.f)
      [] nv.type = "TEXT" ->
            LET str == GoString(nv.s)
                p == firstParse(TrimSuffixZ(str), 1)
            IN IF p.ok THEN GoTime(p.t) ELSE GoText(str)
      [] nv.type = "BLOB" -> GoBytes(nv.y)
      [] nv.type = "NULL" -> GoNil

\* ------------------------------------------------------------- statement
\* func (conn *connection) PrepareContext(ctx, queryString) (driver.Stmt, error)
connectionPrepareContext(c) ==
    /\ ~crashed
    /\ \E o \in NativeOutcomes(ConnLive(c), FALSE) :
        /\ o = "ok" => Len(stmts) < MaxStmts
        /\ crashed' = (o = "crash")
        /\ stmts' = IF o = "ok"
                    THEN Append(stmts, [inner |-> OkHandle(Len(stmts) + 1),
                                        deinitCalls |-> 0])
                    ELSE stmts
        /\ last' = Done("connection.PrepareContext", c, NoArg,
                        IF o = "err" THEN "native error" ELSE NoError,
                        <<Call("libsql_connection_prepare", conns[c].inner)>>,
                        conns[c])
    /\ UNCHANGED <<connector, conns, rowss, txs, ntx>>

\* func (stmt *statement) Close() error
statementClose(s) ==
    /\ ~crashed
    /\ IF stmts[s].inner.inner = Nil
       THEN /\ last' = Done("statement.Close", s, NoArg, NoError, <<>>,
                            stmts[s])
            /\ UNCHANGED stmts
       ELSE /\ stmts' = [stmts EXCEPT ![s] =
                            [inner |-> [@.inner EXCEPT !.inner = Nil],
                             deinitCalls |-> @.deinitCalls + 1]]
            /\ last' = Done("statement.Close", s, NoArg, NoError,
                            <<Call("libsql_statement_deinit", stmts[s].inner)>>,
                            stmts[s])
    /\ UNCHANGED <<connector, conns, rowss, txs, ntx, crashed>>

\* statement.bindSingle: positional when the argument has no name.
bindCall(s, arg) ==
    Call(IF arg.Name = "" THEN "libsql_statement_bind_value"
         ELSE "libsql_statement_bind_named", stmts[s].inner)

\* statement.Bind: one native bind per argument whose kind the switch has a
\* case for, in the order given; the others are skipped.
RECURSIVE Bind(_, _)
Bind(s, args) ==
    IF args = <<>> THEN <<>>
    ELSE (IF Head(args).Value.k \in BindKinds THEN <<bindCall(s, Head(args))>>
          ELSE <<>>) \o Bind(s, Tail(args))

\* The argument lists Exec and Query are called with.
ArgLists ==
    { <<>>,
      <<[Name |-> "", Value |-> GoInt64(7)]>>,
      <<[Name |-> "n", Value |-> GoNil],
        [Name |-> "", Value |-> [GoValue("int") EXCEPT !.i = 7]]>> }

StmtLive(s) == stmts[s].inner.inner # Nil

\* ExecContext and QueryContext up to their results: Bind, then the native
\* execute or query. The native calls are made in order until one fails; n of
\* them were made and o is the outcome of the last.
StmtRun(s, args, final, n, o) ==
    LET calls == Bind(s, args) \o <<Call(final, stmts[s].inner)>> IN
    /\ n \in 1..Len(calls)
    /\ o \in NativeOutcomes(StmtLive(s), TRUE)
    /\ n > 1 => StmtLive(s)
    /\ n < Len(calls) => o # "ok"

StmtCalls(s, args, final, n) ==
    SubSeq(Bind(s, args) \o <<Call(final, stmts[s].inner)>>, 1, n)

\* func (stmt *statement) ExecContext(ctx, args) (driver.Result, error)
statementExecContext(s, args) ==
    /\ ~crashed
    /\ \E n \in 1..(Len(args) + 1), o \in {"ok", "err", "crash"} :
        /\ StmtRun(s, args, "libsql_statement_execute", n, o)
        /\ crashed' = (o = "crash")
        /\ last' = Done("statement.ExecContext", s, args,
                        IF o = "err" THEN "native error" ELSE NoError,
                        StmtCalls(s, args, "libsql_statement_execute", n),
                        stmts[s])
    /\ UNCHANGED <<connector, conns, stmts, rowss, txs, ntx>>

\* func (stmt *statement) QueryContext(ctx, args) (driver.Rows, error)
statementQueryContext(s, args) ==
    /\ ~crashed
    /\ \E n \in 1..(Len(args) + 1), o \in {"ok", "err", "crash"} :
        /\ StmtRun(s, args, "libsql_statement_query", n, o)
        /\ o = "ok" => Len(rowss) < MaxRows
        /\ crashed' = (o = "crash")
        /\ rowss' = IF o = "ok"
                    THEN Append(rowss, [inner |-> OkHandle(Len(rowss) + 1),
                                        deinitCalls |-> 0])
                    ELSE rowss
        /\ last' = Done("statement.QueryContext", s, args,
                        IF o = "err" THEN "native error" ELSE NoError,
                        StmtCalls(s, args, "libsql_statement_query", n),
                        stmts[s])
    /\ UNCHANGED <<connector, conns, stmts, txs, ntx>>

\* ------------------------------------------------------------------ Rows
RowsLive(r) == rowss[r].deinitCalls = 0

\* func (rows *Rows) Close() error
RowsClose(r) ==
    /\ ~crashed
    /\ rowss[r].deinitCalls < MaxDeinit
    /\ \E o \in VoidOutcomes(RowsLive(r)) :
        /\ crashed' = (o = "crash")
        /\ rowss' = [rowss EXCEPT ![r].deinitCalls = @ + 1]
        /\ last' = Done("Rows.Close", r, NoArg, NoError,
                        <<Call("libsql_rows_deinit", rowss[r].inner)>>,
                        rowss[r])
    /\ UNCHANGED <<connector, conns, stmts, txs, ntx>>

\* ------------------------------------------------- value codec round trip
\* The sequences over S of length n, and of length at most n.
RECURSIVE SeqsOfLen(_, _)
SeqsOfLen(S, n) ==
    IF n = 0 THEN {<<>>}
    ELSE {<<x>> \o t : x \in S, t \in SeqsOfLen(S, n - 1)}

SeqsUpTo(S, n) == UNION {SeqsOfLen(S, k) : k \in 0..n}

TextAlphabet == {"a", "Z", "7", "-", "NUL"}

\* Texts that look like dates and times, or nearly.
DateLikeTexts ==
    { <<"2", "0", "2", "3", "-", "0", "1", "-", "0", "2", " ", "0", "3",
         ":", "0", "4", ":", "0", "5">>,
      <<"2", "0", "2", "3", "-", "0", "1", "-", "0", "2", "T", "0", "3",
         ":", "0", "4", ":", "0", "5", "Z">>,
      <<"2", "0", "2", "3", "-", "0", "1", "-", "0", "2", " ", "0", "3",
         ":", "0", "4", ":", "0", "5", ".", "5", "+", "0", "2", ":",
         "0", "0">>,
      <<"2", "0", "2", "3", "-", "0", "1", "-", "0", "2", "T", "0", "3",
         ":", "0", "4">>,
      <<"2", "0", "2", "4", "-", "0", "2", "-", "2", "9">>,
      <<"2", "0", "2", "3", "-", "0", "2", "-", "2", "9">>,
      <<"2", "0", "2", "3", "-", "0", "1", "-", "0", "2", " ", "3", ":",
         "0", "4">>,
      <<"2", "0", "2", "3", "-", "1", "3", "-", "0", "2">>,
      <<"2", "0", "2", "3", "-", "0", "1", "-", "0", "2", " ", "0", "3",
         ":", "0", "4", ":", "0", "5", ",", "2", "5">>,
      <<"2", "0", "2", "3", "-", "0", "1", "-", "0", "2", "Z">>,
      <<"2", "0", "2", "3", "-", "0", "1", "-", "0", "2", "NUL", "x">>,
      <<"2", "0", "2", "3", "-", "0", "1", "-", "0", "2", " ", "0", "3",
         ":", "0", "4", ":", "0", "5", " ">> }

Texts == SeqsUpTo(TextAlphabet, MaxTextLen) \cup DateLikeTexts

Times ==
    { Time(2023, 1, 2, 3, 4, 5, 0, 0),
      Time(2024, 2, 29, 23, 59, 59, 120000000, 7200),
      Time(23, 12, 31, 0, 0, 0, 1, -19800) }

\* The values a caller binds: the kinds of driver.Value, and a Go int, which
\* statement.Bind has no case for.
Values ==
    {GoBool(b) : b \in BOOLEAN}
    \cup {GoInt64(i) : i \in {-1, 0, 1, 7}}
    \cup {GoFloat64(f) : f \in {"0", "1.5", "-2.25"}}
    \cup {GoTime(t) : t \in Times}
    \cup {GoText(t) : t \in Texts}
    \cup {GoBytes(y) : y \in SeqsUpTo({0, 7, 255}, MaxBlobLen)}
    \cup {GoNil, [GoValue("int") EXCEPT !.i = 7]}

\* A parameter no value was bound to.
Unbound == CValue("unbound")

\* statement.Bind with one argument: the native value its parameter gets. An
\* argument of a kind without a case is skipped and the parameter stays unbound.
CodecBind ==
    /\ cpc = "start"
    /\ cparam' = IF carg.Value.k \in BindKinds THEN toValue(carg.Value) ELSE Unbound
    /\ cpc' = "bound"
    /\ UNCHANGED <<carg, cdest>>

\* The value libsql_row_value returns for the column holding the parameter:
\* what was bound, and NULL for a parameter left unbound.
RowValue(param) == IF param = Unbound THEN libsql_null ELSE param

\* func (rows *Rows) Next(dest []driver.Value) error, with one destination
RowsNext ==
    /\ cpc = "bound"
    /\ cdest' = fromValue(RowValue(cparam))
    /\ cpc' = "read"
    /\ UNCHANGED <<carg, cparam>>

CodecIdle ==
    /\ carg = [Name |-> "", Value |-> GoNil]
    /\ cparam = Unbound
    /\ cdest = GoNil
    /\ cpc = "idle"

CodecInit ==
    /\ carg \in {[Name |-> n, Value |-> v] : n \in {"", "n"}, v \in Values}
    /\ cparam = Unbound
    /\ cdest = GoNil
    /\ cpc = "start"

\* ------------------------------------------------- Configuration Builder
\* An Option: the constructor that made it and its argument.
Option(with, str, flag, interval) ==
    [with |-> with, str |-> str, flag |-> flag, interval |-> interval]

WithAuthToken(authToken) == Option("WithAuthToken", authToken, FALSE, 0)
WithReadYourWrites(readYourWrites) == Option("WithReadYourWrites", "", readYourWrites, 0)
WithEncryption(key) == Option("WithEncryption", key, FALSE, 0)
WithSyncInterval(interval) == Option("WithSyncInterval", "", FALSE, interval)

\* type config struct: each field a pointer, <<>> when nil and <<v>> when set.
ZeroConfig ==
    [authToken |-> <<>>, readYourWrites |-> <<>>, encryptionKey |-> <<>>,
     syncInterval |-> <<>>]

Applied(config, err) == [config |-> config, err |-> err]

\* func (o option) apply(c *config) error: the closure the constructor built.
\* err is <<>> for nil.
apply(o, c) ==
    CASE o.with = "WithAuthToken" ->
            IF c.authToken # <<>> THEN Applied(c, <<"authToken already set">>)
            ELSE IF o.str = "" THEN Applied(c, <<"authToken must not be empty">>)
            ELSE Applied([c EXCEPT !.authToken = <<o.str>>], <<>>)
      [] o.with = "WithReadYourWrites" ->
            IF c.readYourWrites # <<>>
            THEN Applied(c, <<"read your writes already set">>)
            ELSE Applied([c EXCEPT !.readYourWrites = <<o.flag>>], <<>>)
      [] o.with = "WithEncryption" ->
            IF c.encryptionKey # <<>> THEN Applied(c, <<"encryption key already set">>)
            ELSE IF o.str = "" THEN Applied(c, <<"encryption key must not be empty">>)
            ELSE Applied([c EXCEPT !.encryptionKey = <<o.str>>], <<>>)
      [] o.with = "WithSyncInterval" ->
            IF c.syncInterval # <<>> THEN Applied(c, <<"sync interval already set">>)
            ELSE Applied([c EXCEPT !.syncInterval = <<o.interval>>], <<>>)

\* The option loop with a return at the first error.
RECURSIVE applyUntilError(_, _, _)
applyUntilError(os, c, errs) ==
    IF os = <<>> THEN [config |-> c, errs |-> errs]
    ELSE LET a == apply(Head(os), c)
         IN IF a.err # <<>> THEN [config |-> a.config, errs |-> errs \o a.err]
            ELSE applyUntilError(Tail(os), a.config, errs)

\* The loop of NewEmbeddedReplicaConnector over opts: every option is applied
\* to the one config, and each error is appended to errs.
RECURSIVE applyAll(_, _, _)
applyAll(os, c, errs) ==
    IF os = <<>> THEN [config |-> c, errs |-> errs]
    ELSE LET a == apply(Head(os), c)
         IN applyAll(Tail(os), a.config, errs \o a.err)

\* time.Duration.Milliseconds, of a duration in nanoseconds
Milliseconds(d) == d \div 1000000

\* type ConnectorOptions struct; url, path and authToken are texts.
ConnectorOptions(url, path, authToken, encryptionKey, syncInterval, notReadYourWrites) ==
    [url |-> url, path |-> path, authToken |-> authToken,
     encryptionKey |-> encryptionKey, syncInterval |-> syncInterval,
     webpki |-> FALSE, notReadYourWrites |-> notReadYourWrites]

\* What a constructor returned: whether a Connector, the error (its messages,
\* <<>> for nil) and the descriptions libsql_database_init was called with.
Built(ok, err, init) == [done |-> TRUE, connector |-> ok, err |-> err, init |-> init]
NotBuilt == [done |-> FALSE, connector |-> FALSE, err |-> <<>>, init |-> <<>>]

\* func NewConnector(opt ConnectorOptions) (*Connector, error), given whether
\* libsql_database_init succeeds
NewConnector(opt, o) ==
    Built(o = "ok", IF o = "ok" THEN <<>> ELSE <<"native error">>, <<opt>>)

DbPath == "local.db"
PrimaryUrl == "libsql://primary"

\* func NewEmbeddedReplicaConnector(dbPath, primaryUrl string, opts ...Option)
NewEmbeddedReplicaConnector ==
    /\ ~built.done
    /\ LET r == applyAll(opts, ZeroConfig, <<>>)
           c == r.config
           authToken == IF c.authToken # <<>> THEN c.authToken[1] ELSE ""
           readYourWrites == IF c.readYourWrites # <<>> THEN c.readYourWrites[1]
                             ELSE TRUE
           encryptionKey == IF c.encryptionKey # <<>> THEN c.encryptionKey[1] ELSE ""
           syncInterval == IF c.syncInterval # <<>> THEN c.syncInterval[1] ELSE 0
       IN IF Len(r.errs) > 0
          THEN built' = Built(FALSE, r.errs, <<>>)
          ELSE \E o \in {"ok", "err"} :
                built' = NewConnector(
                    ConnectorOptions(PrimaryUrl, DbPath, authToken, encryptionKey,
                                     Milliseconds(syncInterval), ~readYourWrites), o)
    /\ UNCHANGED opts

\* The options a caller may give.
Options ==
    {WithAuthToken(t) : t \in {"", "t1", "t2"}}
    \cup {WithReadYourWrites(b) : b \in BOOLEAN}
    \cup {WithEncryption(k) : k \in {"", "key"}}
    \cup {WithSyncInterval(d) : d \in {0, 1500000}}

ConfigIdle == opts = <<>> /\ built = Built(FALSE, <<>>, <<>>)

ConfigInit == opts \in SeqsUpTo(Options, MaxOpts) /\ built = NotBuilt

\* ---------------------------------------------------------- Driver Facade
\* A connection string is a sequence of tokens: a word (a run of letters or a
\* run of digits) or one punctuation character.
Punctuation == {":", "/", "?", "&", "=", " "}
DigitWords == {"8080"}
IsLetters(tok) == tok \notin Punctuation /\ tok \notin DigitWords

\* strings.TrimSpace
RECURSIVE trimRight(_)
trimRight(s) ==
    IF Len(s) > 0 /\ s[Len(s)] = " " THEN trimRight(Take(s, Len(s) - 1)) ELSE s

TrimSpace(s) == trimRight(cutspace(s))

\* strings.Index and strings.LastIndex of a token, counted from 1; 0 when absent
Index(s, tok) ==
    IF \E i \in 1..Len(s) : s[i] = tok
    THEN CHOOSE i \in 1..Len(s) : s[i] = tok /\ \A j \in 1..(i - 1) : s[j] # tok
    ELSE 0

LastIndex(s, tok) ==
    IF \E i \in 1..Len(s) : s[i] = tok
    THEN CHOOSE i \in 1..Len(s) : s[i] = tok /\ \A j \in (i + 1)..Len(s) : s[j] # tok
    ELSE 0

HasPrefix(s, pre) == Len(s) >= Len(pre) /\ Take(s, Len(pre)) = pre

\* strings.ToLower of a word
ToLower(w) == IF w = "HTTP" THEN "http" ELSE w

\* net/url getScheme: the letters, digits (not first) before the first ":";
\* none when another character comes first; an error when the ":" is first.
getScheme(raw) ==
    LET stop == IF \E i \in 1..Len(raw) : ~IsLetters(raw[i]) /\ (i = 1 \/ raw[i] \notin DigitWords)
                THEN CHOOSE i \in 1..Len(raw) :
                        /\ ~IsLetters(raw[i]) /\ (i = 1 \/ raw[i] \notin DigitWords)
                        /\ \A j \in 1..(i - 1) :
                              IsLetters(raw[j]) \/ (j > 1 /\ raw[j] \in DigitWords)
                ELSE 0
    IN IF stop = 0 \/ raw[stop] # ":"
       THEN [ok |-> TRUE, scheme |-> <<>>, rest |-> raw]
       ELSE IF stop = 1
       THEN [ok |-> FALSE, scheme |-> <<>>, rest |-> raw]
       ELSE [ok |-> TRUE, scheme |-> Take(raw, stop - 1), rest |-> Drop(raw, stop)]

\* net/url validOptionalPort: nothing, or ":" and digits
validOptionalPort(port) ==
    port = <<>> \/ (port[1] = ":" /\ \A i \in 2..Len(port) : port[i] \in DigitWords)

URL(scheme, opaque, host, path, rawQuery) ==
    [ok |-> TRUE, err |-> "", Scheme |-> scheme, Opaque |-> opaque, Host |-> host,
     Path |-> path, RawQuery |-> rawQuery]

ParseError(msg) ==
    [ok |-> FALSE, err |-> msg, Scheme |-> <<>>, Opaque |-> <<>>, Host |-> <<>>,
     Path |-> <<>>, RawQuery |-> <<>>]

\* net/url Parse, for strings without "#", "@", "[" and "%"
Parse(raw) ==
    LET g == getScheme(raw)
        scheme == [i \in 1..Len(g.scheme) |-> ToLower(g.scheme[i])]
        q == Index(g.rest, "?")
        rest == IF q = 0 THEN g.rest ELSE Take(g.rest, q - 1)
        rawQuery == IF q = 0 THEN <<>> ELSE Drop(g.rest, q)
        slash == Index(rest, "/")
        segment == IF slash = 0 THEN rest ELSE Take(rest, slash - 1)
        hasAuthority == HasPrefix(rest, <<"/", "/">>)
                        /\ (scheme # <<>> \/ ~HasPrefix(rest, <<"/", "/", "/">>))
        after == Drop(rest, 2)
        cut == Index(after, "/")
        authority == IF cut = 0 THEN after ELSE Take(after, cut - 1)
        path == IF ~hasAuthority THEN rest
                ELSE IF cut = 0 THEN <<>> ELSE Drop(after, cut - 1)
        colon == LastIndex(authority, ":")
    IN IF ~g.ok THEN ParseError("missing protocol scheme")
       ELSE IF ~HasPrefix(rest, <<"/">>) /\ scheme # <<>>
       THEN URL(scheme, rest, <<>>, <<>>, rawQuery)
       ELSE IF ~HasPrefix(rest, <<"/">>) /\ Index(segment, ":") # 0
       THEN ParseError("first path segment in URL cannot contain colon")
       ELSE IF ~hasAuthority THEN URL(scheme, <<>>, <<>>, path, rawQuery)
       ELSE IF colon # 0 /\ ~validOptionalPort(Drop(authority, colon - 1))
       THEN ParseError("invalid port after host")
       ELSE IF Index(authority, " ") # 0
       THEN ParseError("invalid character in host name")
       ELSE URL(scheme, <<>>, authority, path, rawQuery)

\* func (u *URL) Hostname() string: Host without a valid port
Hostname(u) ==
    LET colon == LastIndex(u.Host, ":")
    IN IF colon # 0 /\ validOptionalPort(Drop(u.Host, colon - 1))
       THEN Take(u.Host, colon - 1)
       ELSE u.Host

\* u.Query().Get(key): the value of the first "key=value" of the query, its
\* pairs separated by "&"; empty when there is none
RECURSIVE QueryGet(_, _)
QueryGet(query, key) ==
    LET amp == Index(query, "&")
        pair == IF amp = 0 THEN query ELSE Take(query, amp - 1)
        eq == Index(pair, "=")
        k == IF eq = 0 THEN pair ELSE Take(pair, eq - 1)
        v == IF eq = 0 THEN <<>> ELSE Drop(pair, eq)
    IN IF query = <<>> THEN <<>>
       ELSE IF pair # <<>> /\ k = <<key>> THEN v
       ELSE IF amp = 0 THEN <<>>
       ELSE QueryGet(Drop(query, amp), key)

\* ConnectorOptions with only url, path and authToken given
OpenOptions(url, path, authToken) ==
    ConnectorOptions(url, path, authToken, "", 0, FALSE)

\* OpenConnector forwarding the scheme it was given.
SchemeUrl(u) == u.Scheme \o <<":", "/", "/">> \o Hostname(u)

\* The url OpenConnector forwards.
LibsqlUrl(u) == <<"libsql", ":", "/", "/">> \o Hostname(u)

Unsupported(scheme) == <<"unsupported URL scheme">> \o scheme

\* func (d Driver) OpenConnector(dbAddress string) (driver.Connector, error)
OpenConnector ==
    /\ ~opened.done
    /\ LET u == Parse(dbAddress.text) IN
       IF TrimSpace(dbAddress.text) = <<":", "memory", ":">>
       THEN \E o \in {"ok", "err"} :
                opened' = NewConnector(OpenOptions(<<>>, <<>>, <<>>), o)
       ELSE IF ~u.ok THEN opened' = Built(FALSE, <<u.err>>, <<>>)
       ELSE IF u.Scheme = <<"file">>
       THEN \E o \in {"ok", "err"} :
                opened' = NewConnector(OpenOptions(<<>>, u.Opaque, <<>>), o)
       ELSE IF u.Scheme \in {<<"http">>, <<"https">>, <<"libsql">>}
       THEN \E o \in {"ok", "err"} :
                opened' = NewConnector(
                    OpenOptions(LibsqlUrl(u), QueryGet(u.RawQuery, "path"),
                                QueryGet(u.RawQuery, "authToken")), o)
       ELSE opened' = Built(FALSE, Unsupported(u.Scheme), <<>>)
    /\ UNCHANGED dbAddress

\* The connection strings a caller may give, each with the parts it was put
\* together from: spaces, a scheme, an authority or path, a query, spaces.
Spaces(n) == [i \in 1..n |-> " "]

SchemeParts ==
    { <<>>, <<":">>, <<"file", ":">>, <<"http", ":">>, <<"https", ":">>,
      <<"libsql", ":">>, <<"HTTP", ":">>, <<"ftp", ":">>, <<":", "memory", ":">> }

BodyParts ==
    { <<>>, <<"db">>, <<"/", "db">>, <<"/", "/", "host">>,
      <<"/", "/", "host", ":", "8080">>, <<"/", "/", "host", "/", "db">> }

QueryParts ==
    { <<>>, <<"?">>, <<"?", "authToken", "=", "tok">>,
      <<"?", "authToken", "=", "tok", "&", "path", "=", "db">>,
      <<"?", "path", "=", "db", "&", "authToken", "=", "tok">>,
      <<"?", "path", "=", "db", "&", "path", "=", "x">>, <<"?", "path">> }

Address(lead, scheme, body, query, trail) ==
    [lead |-> lead, scheme |-> scheme, body |-> body, query |-> query,
     trail |-> trail,
     text |-> Spaces(lead) \o scheme \o body \o query \o Spaces(trail)]

Addresses ==
    {Address(l, sp, bp, qp, t) :
        l \in 0..MaxPad, sp \in SchemeParts, bp \in BodyParts, qp \in QueryParts,
        t \in 0..MaxPad}

OpenIdle == dbAddress = Address(0, <<>>, <<>>, <<>>, 0) /\ opened = Built(FALSE, <<>>, <<>>)

OpenInit == dbAddress \in Addresses /\ opened = NotBuilt

\* ------------------------------------------------------------------ Spec
HandlesInit ==
    /\ connector = [inner |-> OkHandle(1), deinitCalls |-> 0]
    /\ conns = <<>>
    /\ stmts = <<>>
    /\ rowss = <<>>
    /\ txs = <<>>
    /\ ntx = <<>>
    /\ crashed = FALSE
    /\ ended = {}
    /\ last = Done("NewConnector", 0, NoArg, NoError,
                   <<Call("libsql_database_init", ZeroHandle)>>, ZeroHandle)

\* The handles: a Connector was built; any driver method may be called next.
Init == HandlesInit /\ CodecIdle /\ ConfigIdle /\ OpenIdle

\* Sync and Close of the Connector.
NextConnector ==
    \/ ConnectorSync /\ UNCHANGED <<ended, cvars, bvars, ovars>>
    \/ ConnectorClose /\ UNCHANGED <<ended, cvars, bvars, ovars>>

\* The methods that open and close connections.
NextConnections ==
    \/ ConnectorConnect /\ UNCHANGED <<ended, cvars, bvars, ovars>>
    \/ \E c \in 1..Len(conns) : connectionClose(c) /\ UNCHANGED <<ended, cvars, bvars, ovars>>

\* The methods that make, use and close statements and Rows.
NextStatements ==
    \/ \E c \in 1..Len(conns) : connectionPrepareContext(c) /\ UNCHANGED <<ended, cvars, bvars, ovars>>
    \/ \E s \in 1..Len(stmts) : statementClose(s) /\ UNCHANGED <<ended, cvars, bvars, ovars>>
    \/ \E s \in 1..Len(stmts), args \in ArgLists :
         statementExecContext(s, args) /\ UNCHANGED <<ended, cvars, bvars, ovars>>
    \/ \E s \in 1..Len(stmts), args \in ArgLists :
         statementQueryContext(s, args) /\ UNCHANGED <<ended, cvars, bvars, ovars>>
    \/ \E r \in 1..Len(rowss) : RowsClose(r) /\ UNCHANGED <<ended, cvars, bvars, ovars>>

\* The methods that read or write a connection's in_transaction and tx.
NextTransactions ==
    \/ \E c \in 1..Len(conns) : connectionBatch(c) /\ UNCHANGED <<ended, cvars, bvars, ovars>>
    \/ \E c \in 1..Len(conns), ro \in BOOLEAN, iso \in Isolations :
         connectionBeginTx(c, ro, iso) /\ UNCHANGED <<ended, cvars, bvars, ovars>>
    \/ \E t \in 1..Len(txs) : transactionCommit(t) /\ UNCHANGED <<ended, cvars, bvars, ovars>>
    \/ \E t \in 1..Len(txs) : transactionRollback(t) /\ UNCHANGED <<ended, cvars, bvars, ovars>>

Next == NextConnector \/ NextConnections \/ NextStatements \/ NextTransactions

Spec == Init /\ [][Next]_vars

\* Statements and Rows hold no reference to a transaction, and no method of
\* theirs reads or writes in_transaction or tx: the driver without the
\* transaction methods.
NextLifecycle == NextConnector \/ NextConnections \/ NextStatements

SpecLifecycle == Init /\ [][NextLifecycle]_vars

\* Connections of an open Connector and their transactions.
NextTransactional == NextConnections \/ NextTransactions

SpecTransactional == Init /\ [][NextTransactional]_vars

\* A Commit or Rollback that returns nil has ended its transaction object.
TrackEnded ==
    ended' = IF last'.op \in {"transaction.Commit", "transaction.Rollback"}
                   /\ last'.err = NoError
             THEN ended \cup {last'.obj}
             ELSE ended

\* The methods of connections and transactions, with the history of the
\* transaction objects kept.
NextOwnership ==
    \/ ConnectorConnect /\ TrackEnded /\ UNCHANGED <<cvars, bvars, ovars>>
    \/ \E c \in 1..Len(conns) :
         connectionClose(c) /\ TrackEnded /\ UNCHANGED <<cvars, bvars, ovars>>
    \/ \E c \in 1..Len(conns) :
         connectionBatch(c) /\ TrackEnded /\ UNCHANGED <<cvars, bvars, ovars>>
    \/ \E c \in 1..Len(conns), ro \in BOOLEAN, iso \in Isolations :
         connectionBeginTx(c, ro, iso) /\ TrackEnded /\ UNCHANGED <<cvars, bvars, ovars>>
    \/ \E t \in 1..Len(txs) :
         transactionCommit(t) /\ TrackEnded /\ UNCHANGED <<cvars, bvars, ovars>>
    \/ \E t \in 1..Len(txs) :
         transactionRollback(t) /\ TrackEnded /\ UNCHANGED <<cvars, bvars, ovars>>

SpecOwnership == Init /\ [][NextOwnership]_vars

\* The value codec: one value is bound as a parameter and read back.
InitCodec == HandlesInit /\ CodecInit /\ ConfigIdle /\ OpenIdle

NextCodec ==
    \/ CodecBind /\ UNCHANGED <<hvars, bvars, ovars>>
    \/ RowsNext /\ UNCHANGED <<hvars, bvars, ovars>>

SpecCodec == InitCodec /\ [][NextCodec]_vars

\* The configuration builder: one call with a list of options.
InitConfig == HandlesInit /\ CodecIdle /\ ConfigInit /\ OpenIdle

NextConfig == NewEmbeddedReplicaConnector /\ UNCHANGED <<hvars, cvars, ovars>>

SpecConfig == InitConfig /\ [][NextConfig]_vars

\* The driver facade: one call of OpenConnector with a connection string.
InitOpen == HandlesInit /\ CodecIdle /\ ConfigIdle /\ OpenInit

NextOpen == OpenConnector /\ UNCHANGED <<hvars, cvars, bvars>>

SpecOpen == InitOpen /\ [][NextOpen]_vars

\* ---------------------------------------------------------------- claims
Closes == {"Connector.Close", "statement.Close"}
TxEnds == {"transaction.Commit", "transaction.Rollback"}

\* C1: libsql_database_deinit and libsql_statement_deinit are called at most
\* once per handle: the first Close of a Connector or a statement makes the
\* call, every later Close makes no native call, and every Close returns nil.
C1_CloseReleasesOnce ==
    /\ connector.deinitCalls <= 1
    /\ \A s \in 1..Len(stmts) : stmts[s].deinitCalls <= 1
    /\ last.op \in Closes =>
        /\ last.err = NoError
        /\ last.pre.deinitCalls = 0 =>
              /\ Len(last.native) = 1
              /\ last.native[1].fn \in {"libsql_database_deinit", "libsql_statement_deinit"}
              /\ last.native[1].h # Nil
        /\ last.pre.deinitCalls > 0 => last.native = <<>>

\* A statement is closed a second time, after the Connector was closed.
C1_Witness ==
    /\ last.op = "statement.Close"
    /\ last.pre.deinitCalls = 1
    /\ connector.deinitCalls = 1

\* C2: Commit or Rollback on a connection that is not in a transaction
\* returns "Not inside a transaction", makes no native call and leaves
\* in_transaction and the native transaction handle as they were.
C2_EndOutsideTransaction ==
    (last.op \in TxEnds /\ ~last.pre.in_transaction) =>
        /\ last.err = "Not inside a transaction"
        /\ last.native = <<>>
        /\ conns[txs[last.obj].conn].in_transaction = last.pre.in_transaction
        /\ conns[txs[last.obj].conn].tx = last.pre.tx

\* Commit was called on a connection whose transaction had been rolled back.
C2_Witness ==
    /\ last.op = "transaction.Commit"
    /\ ~last.pre.in_transaction
    /\ \E i \in 1..Len(ntx) : ntx[i].st = "rolledback"

\* C3: BeginTx with ReadOnly, or with an isolation level other than the
\* default, returns an error, makes no native call and leaves in_transaction
\* and the native transaction handle as they were, whatever they were.
C3_BeginTxRejected ==
    (last.op = "connection.BeginTx"
        /\ (last.arg.ReadOnly \/ last.arg.Isolation # LevelDefault)) =>
        /\ last.err # NoError
        /\ last.native = <<>>
        /\ conns[last.obj] = last.pre

\* A BeginTx with a non-default isolation level was rejected on a connection
\* that is in a transaction.
C3_Witness ==
    /\ last.op = "connection.BeginTx"
    /\ ~last.arg.ReadOnly
    /\ last.arg.Isolation # LevelDefault
    /\ last.pre.in_transaction
    /\ TxHandleOpen(last.pre.tx)

\* C7: libsql_connection_deinit and libsql_rows_deinit are called at most
\* once per connection and per Rows, however often Close is called.
C7_ConnAndRowsReleasedOnce ==
    /\ \A c \in 1..Len(conns) : conns[c].deinitCalls <= 1
    /\ \A r \in 1..Len(rowss) : rowss[r].deinitCalls <= 1

\* C8: a call of Sync or Connect on a closed Connector, or of ExecContext or
\* QueryContext on a closed statement, makes no native call.
C8_NoNativeCallAfterClose ==
    (last.op \in {"Connector.Sync", "Connector.Connect", "statement.ExecContext",
                  "statement.QueryContext"}
        /\ last.pre.deinitCalls > 0) =>
        last.native = <<>>

\* C9: a connection is in_transaction only while it owns the handle of an
\* open native transaction; a BeginTx that returns an error leaves it outside
\* a transaction; a Commit or Rollback that returns nil leaves the handle
\* empty and the flag cleared.
C9_InTransactionOwnsHandle ==
    ~crashed =>
        /\ \A c \in 1..Len(conns) :
              conns[c].in_transaction => TxHandleOpen(conns[c].tx)
        /\ (last.op = "connection.BeginTx" /\ last.err # NoError) =>
              ~conns[last.obj].in_transaction
        /\ (last.op \in TxEnds /\ last.err = NoError) =>
              /\ conns[txs[last.obj].conn].tx = ZeroHandle
              /\ ~conns[txs[last.obj].conn].in_transaction

\* A native transaction of connection c is begun and neither committed nor
\* rolled back.
TransactionOpen(c) == \E i \in 1..Len(ntx) : ntx[i].conn = c /\ ntx[i].st = "open"

\* C10: Batch runs on the native transaction handle exactly when a
\* transaction is open on the connection, on the connection handle otherwise,
\* and never on a transaction handle that is not that of an open transaction.
C10_BatchRoutesByTransaction ==
    last.op = "connection.Batch" =>
        /\ TransactionOpen(last.obj) <=> last.native[1].fn = "libsql_transaction_batch"
        /\ ~TransactionOpen(last.obj) <=> last.native[1].fn = "libsql_connection_batch"
        /\ last.native[1].fn = "libsql_transaction_batch" =>
              TxHandleOpen(OkHandle(last.native[1].h))

\* BeginTx appends the transaction object and the native transaction it began
\* together: transaction object t was returned for the native transaction t.
ReturnedFor(t) == OkHandle(t)

\* What a step that is a Commit, a Rollback or a BeginTx does to the
\* transaction the connection holds.
EndsOnlyItsOwn ==
    /\ \A t \in 1..Len(txs) :
          (last'.op \in TxEnds /\ last'.obj = t) =>
              /\ t \in ended =>
                    /\ last'.err = "Not inside a transaction"
                    /\ last'.native = <<>>
              /\ last'.native # <<>> =>
                    last'.native[1].h = ReturnedFor(t).inner
    /\ \A c \in 1..Len(conns) :
          (last'.op = "connection.BeginTx" /\ last'.obj = c
              /\ TxHandleOpen(conns[c].tx)) =>
              conns'[c].tx = conns[c].tx

\* C11: a transaction object ends only the transaction it was returned for:
\* once a Commit or Rollback on it has returned nil, every later Commit or
\* Rollback on it returns "Not inside a transaction" and makes no native call,
\* also after another BeginTx on the connection; and a BeginTx never replaces
\* the handle of a transaction that is neither committed nor rolled back.
C11_TransactionEndsOnlyItsOwn == [][EndsOnlyItsOwn]_vars

\* A text that one of the date/time layouts accepts, a trailing "Z" aside.
MatchesDateTime(text) == firstParse(TrimSuffixZ(text), 1).ok

\* C4: a value bound as a parameter and read back from the row is unchanged,
\* except that a bool comes back as the integer 0 or 1 and that a timestamp,
\* or a text that matches one of the date/time layouts, comes back as a
\* timestamp.
C4_RoundTrip ==
    cpc = "read" =>
        CASE carg.Value.k = "bool" ->
                cdest = GoInt64(IF carg.Value.b THEN 1 ELSE 0)
          [] carg.Value.k = "time" -> cdest.k = "time"
          [] carg.Value.k = "string" ->
                IF MatchesDateTime(carg.Value.s) THEN cdest.k = "time"
                ELSE cdest = carg.Value
          [] carg.Value.k \in {"int64", "float64", "bytes", "nil"} ->
                cdest = carg.Value
          [] OTHER -> TRUE

\* An option whose argument its constructor accepts.
ValidOption(o) == o.with \in {"WithAuthToken", "WithEncryption"} => o.str # ""

\* An earlier option of the list has set what option i sets.
SetBefore(os, i) ==
    \E j \in 1..(i - 1) : os[j].with = os[i].with /\ ValidOption(os[j])

\* The applications that fail, and the message each fails with.
Failing(os) == {i \in 1..Len(os) : SetBefore(os, i) \/ ~ValidOption(os[i])}

Subject(o) ==
    CASE o.with = "WithAuthToken" -> "authToken"
      [] o.with = "WithReadYourWrites" -> "read your writes"
      [] o.with = "WithEncryption" -> "encryption key"
      [] o.with = "WithSyncInterval" -> "sync interval"

IsFailureOf(msg, os, i) ==
    /\ Subject(os[i]) = "authToken" =>
          msg = (IF SetBefore(os, i) THEN "authToken already set"
                 ELSE "authToken must not be empty")
    /\ Subject(os[i]) = "read your writes" => msg = "read your writes already set"
    /\ Subject(os[i]) = "encryption key" =>
          msg = (IF SetBefore(os, i) THEN "encryption key already set"
                 ELSE "encryption key must not be empty")
    /\ Subject(os[i]) = "sync interval" => msg = "sync interval already set"

\* C5: NewEmbeddedReplicaConnector applies every option, in order, also after
\* a failure: the error it returns holds one message per failing application,
\* in the order of the options, and when an application fails no native
\* database is initialized and no Connector is returned.
C5_AllOptionErrorsCollected ==
    (built.done /\ Failing(opts) # {}) =>
        /\ Len(built.err) = Cardinality(Failing(opts))
        /\ \A i \in Failing(opts) :
              IsFailureOf(built.err[Cardinality({j \in Failing(opts) : j <= i})],
                          opts, i)
        /\ ~built.connector
        /\ built.init = <<>>

\* An empty auth token, then two valid ones: the first application fails, the
\* second succeeds after it and the third finds the token set.
C5_Witness ==
    /\ built.done
    /\ Len(opts) = 3
    /\ \A i \in 1..3 : opts[i].with = "WithAuthToken"
    /\ opts[1].str = "" /\ opts[2].str # "" /\ opts[3].str # ""
    /\ built.err = <<"authToken must not be empty", "authToken already set">>

MemoryAddress(a) ==
    a.scheme = <<":", "memory", ":">> /\ a.body = <<>> /\ a.query = <<>>

RemoteSchemes == {<<"http">>, <<"https">>, <<"libsql">>}

\* What an address put together without spaces around it names: its scheme
\* (lower case), its host without the port, and its query parameters.
PartScheme(a) == IF a.scheme = <<>> THEN <<>> ELSE <<ToLower(a.scheme[1])>>

PartHost(a) == IF HasPrefix(a.body, <<"/", "/", "host">>) THEN <<"host">> ELSE <<>>

PartAuthToken(a) ==
    IF \E i \in 1..Len(a.query) : a.query[i] = "authToken" THEN <<"tok">> ELSE <<>>

PartPath(a) ==
    IF HasPrefix(a.query, <<"?", "path", "=">>)
       \/ HasPrefix(a.query, <<"?", "authToken", "=", "tok", "&", "path", "=">>)
    THEN <<"db">> ELSE <<>>

====
